---- MODULE Spec2Model ----
(***************************************************************************)
(* Update ingestion and session lifecycle of the Telegram chat relay       *)
(* (src/handler.py).  Every invocation of process_telegram_update is a     *)
(* process that walks through the handler one store round trip at a time;  *)
(* the session table, the dedup ledger and the archive bucket are the      *)
(* only state that invocations share.                                      *)
(***************************************************************************)
EXTENDS Integers, Sequences, FiniteSets, TLC

\* ------------------------------------------------------------ bounds
MaxRuns == 3         \* deliveries (invocations of process_telegram_update)
MaxFaults == 1       \* store / transport faults injected in one behaviour
MaxTicks == 1        \* clock advances in one behaviour
MaxUpdates == 6      \* updates that pile up at the platform before a first poll

\* ------------------------------------------------------------ program constants
GuardWindow == 55    \* handle_message: (now - pending_since) < 55
StartTime == 1       \* time.time() is positive
PollLimit == 5       \* poll_messages: params = {"limit": 5, ...}

Inv == {1, 2}                    \* concurrently running invocations
Ids == 1..MaxRuns                \* uuid4 space (a run draws at most one), in sort key order
UpdateIds == 1..MaxRuns          \* update ids the platform hands out
Jumps == {54, 55}                \* seconds the clock may advance in one step

\* ------------------------------------------------------------ values
\* A number read back from DynamoDB is a Decimal ("N"); json.dumps(default=str)
\* writes a Decimal as a JSON string ("S").
Num(v) == [t |-> "N", v |-> v]
Str(v) == [t |-> "S", v |-> v]

\* json.dumps(..., default=str) of one scalar that came out of the table
json_dumps_str(x) == Str(x.v)
json_dumps_same(x) == x
json_dumps_scalar(x) == IF x.t = "N" THEN json_dumps_str(x) ELSE json_dumps_same(x)

\* json.dumps of a conversation (a list of message dicts)
json_dumps_conversation(conv) ==
    [k \in 1..Len(conv) |-> [conv[k] EXCEPT !.ts = json_dumps_scalar(conv[k].ts)]]

\* Payload of a command: the text after the command word
NaN == [isnum |-> FALSE, n |-> 0]
Number(n) == [isnum |-> TRUE, n |-> n]
Payloads == {NaN} \cup {Number(n) : n \in 0..(MaxRuns - 1)}

\* Document uploads: file type and what the downloaded body parses to
Documents == {[ftype |-> "other", body |-> "valid", orig |-> 0],
              [ftype |-> "json", body |-> "unparsable", orig |-> 0],
              [ftype |-> "json", body |-> "noconv", orig |-> 0]}
             \cup {[ftype |-> "json", body |-> "valid", orig |-> o] : o \in 0..1}

NoDoc == [ftype |-> "none", body |-> "none", orig |-> 0]

\* handle_message: MAX_MESSAGE_LENGTH = 4000
MAX_MESSAGE_LENGTH == 4000

\* The text of a message: the number of surrounding whitespace characters and
\* the number of characters text.strip() leaves
EmptyText == [lead |-> 0, body |-> 0]
ShortText == [lead |-> 0, body |-> 1]
Texts == {[lead |-> w, body |-> n] :
             w \in 0..1, n \in {0, 1, MAX_MESSAGE_LENGTH, MAX_MESSAGE_LENGTH + 1}}

\* The updates the platform can produce (text commands, chat text, documents);
\* kind is what the stripped text says: a command name after '/', or chat text
Contents ==
    {[kind |-> k, payload |-> NaN, doc |-> NoDoc, text |-> ShortText] :
        k \in {"chat", "newsession"}}
    \cup {[kind |-> k, payload |-> p, doc |-> NoDoc, text |-> ShortText] :
             k \in {"switch", "archive"}, p \in Payloads}
    \cup {[kind |-> "doc", payload |-> NaN, doc |-> d, text |-> EmptyText] : d \in Documents}

NoContent == [kind |-> "none", payload |-> NaN, doc |-> NoDoc, text |-> EmptyText]

\* lambda_handler in polling mode before it is invoked
Resting == [pc |-> "idle", last_offset |-> 0, lo |-> 1, hi |-> 0, cur |-> 0,
            max_update_id |-> 0, new_offset |-> 0, first |-> FALSE,
            processed |-> {}, failed |-> 0, status |-> 0]

\* A session item as create_session builds it (model_name is always the default)
NewItem(t) == [is_active |-> 1, conversation |-> <<>>, pending_request_ts |-> 0,
               last_message_ts |-> t, full |-> TRUE]

\* update_item on a key that is gone creates an item holding only the key and
\* the attribute that was SET
UpsertItem(val) == [is_active |-> val, conversation |-> <<>>, pending_request_ts |-> 0,
                    last_message_ts |-> 0, full |-> FALSE]

NoSession == [is_active |-> 0, conversation |-> <<>>, pending_request_ts |-> 0,
              last_message_ts |-> 0, full |-> FALSE]

EmptyItems == [s \in {} |-> NoSession]

\* None, as get_archive_from_s3 returns it
NoArchive == [session_id |-> 0, conversation |-> <<>>, last_message_ts |-> Str(0),
              imported |-> FALSE, original_session_id |-> 0]

\* lambda_handler has not returned yet
NoStatus == [statusCode |-> 0, ok |-> FALSE]

\* ------------------------------------------------------------ state
VARIABLES
    table,      \* session items of the user: session id -> item
    dedup,      \* dedup ledger: update ids with an 'update#u' item
    s3,         \* archive bucket: session id -> archive object (JSON)
    used,       \* uuid4 values drawn so far (never drawn twice)
    lastId,     \* the newest update id the platform has handed out
    last,       \* the content of that update (a redelivery carries it again)
    handled,    \* number of handle_message runs for update lastId
    runs,       \* deliveries so far
    now,        \* time.time()
    ticks,      \* clock advances so far
    faults,     \* faults injected so far
    inv,        \* invocation -> its position and locals
    offset,     \* the stored last_offset (0: no offset item)
    level,      \* the platform has forgotten (confirmed) every update id below it
    poll,       \* the polling invocation of lambda_handler: position and locals
    sent        \* update ids whose final reply went out to the chat

vars == <<table, dedup, s3, used, lastId, last, handled, runs, now, ticks, faults, inv,
          offset, level, poll, sent>>

Idle == [pc |-> "idle", u |-> 0, c |-> NoContent, sid |-> 0, items |-> EmptyItems, todo |-> {},
         sess |-> NoSession, tnow |-> 0, ai |-> "none", out |-> "none",
         msg |-> "none", ret |-> "none", acted |-> FALSE, faulted |-> FALSE,
         replied |-> FALSE, marked |-> FALSE, ledger |-> "unread", got |-> NoArchive,
         pending_since |-> 0, status |-> NoStatus]

Init ==
    /\ table = EmptyItems
    /\ dedup = {}
    /\ s3 = [s \in {} |-> 0]
    /\ used = {}
    /\ lastId = 0
    /\ last = NoContent
    /\ handled = 0
    /\ runs = 0
    /\ now = StartTime
    /\ ticks = 0
    /\ faults = 0
    /\ inv = [i \in Inv |-> Idle]
    /\ offset = 0
    /\ level = 1
    /\ poll = Resting
    /\ sent = {}

\* ------------------------------------------------------------ store primitives
\* table.put_item(Item=item): the whole item is written, created if absent
put_item(tbl, sid, item) ==
    [s \in DOMAIN tbl \cup {sid} |-> IF s = sid THEN item ELSE tbl[s]]

\* table.update_item(SET is_active = :val): an upsert
update_item(tbl, sid, val) ==
    [s \in DOMAIN tbl \cup {sid} |->
        IF s # sid THEN tbl[s]
        ELSE IF sid \in DOMAIN tbl THEN [tbl[sid] EXCEPT !.is_active = val]
        ELSE UpsertItem(val)]

\* table.delete_item(Key=...)
\* the delete that makes the first remaining session the active one
delete_item_promote(tbl, sid) ==
    LET rest == DOMAIN tbl \ {sid}
    IN [s \in rest |-> IF \A x \in rest : s <= x THEN [tbl[s] EXCEPT !.is_active = 1]
                       ELSE tbl[s]]

delete_item(tbl, sid) == [s \in DOMAIN tbl \ {sid} |-> tbl[s]]

\* get_user_items: the query result, or [] when the query raised
get_user_items(tbl, ok) == IF ok THEN tbl ELSE EmptyItems

\* position of session s in the list the query returned (1-based)
IndexOf(items, s) == Cardinality({x \in DOMAIN items : x <= s})

\* sessions[idx] of the list the query returned, idx 0-based
SessionAt(items, idx) == CHOOSE s \in DOMAIN items : IndexOf(items, s) = idx + 1

\* get_active_session: the first item of the list with is_active == 1
ActiveIds(items) == {s \in DOMAIN items : items[s].is_active = 1}
HasActive_never(items) == FALSE
HasActive(items) == ActiveIds(items) # {}
FirstActive(items) == CHOOSE s \in ActiveIds(items) : \A x \in ActiveIds(items) : s <= x

Min(S) == CHOOSE s \in S : \A x \in S : s <= x

\* ------------------------------------------------------------ faults and time
CanFault == faults < MaxFaults

\* One store or transport call: it succeeds, or (within the budget) raises
Call(ok) == IF ok THEN faults' = faults ELSE CanFault /\ faults' = faults + 1

Tick ==
    /\ ticks < MaxTicks
    /\ \E d \in Jumps : now' = now + d
    /\ ticks' = ticks + 1
    /\ UNCHANGED <<table, dedup, s3, used, lastId, last, handled, runs, faults, inv, offset, level, poll, sent>>

\* ------------------------------------------------------------ invocation helpers
Set(i, r) == inv' = [inv EXCEPT ![i] = r]

\* the handler is about to send_message(msg) and return outcome
ToReply(r, outcome, msg) ==
    [r EXCEPT !.pc = "reply", !.out = outcome, !.msg = msg,
              !.items = EmptyItems, !.todo = {}]

\* a store call raised and the exception leaves process_telegram_update: no
\* reply is sent
Raise(r) ==
    [r EXCEPT !.pc = "done", !.out = "exception", !.faulted = TRUE,
              !.items = EmptyItems, !.todo = {}]

\* a KeyError on an item that lacks the attribute leaves it the same way
Crash(r) ==
    [r EXCEPT !.pc = "done", !.out = "exception", !.items = EmptyItems, !.todo = {}]

AllIdle == \A j \in Inv : inv[j].pc = "idle"

\* ------------------------------------------------------------ delivery
\* The platform hands update u to invocation i (webhook call or polled batch
\* entry); a redelivery carries the same content.
Deliver(i, C) ==
    /\ inv[i].pc = "idle"
    /\ runs < MaxRuns
    /\ runs' = runs + 1
    /\ \/ \E c \in C :
            /\ c.doc.orig \in {0} \cup used
            /\ lastId' = lastId + 1
            /\ last' = c
            /\ handled' = 0
            /\ Set(i, [Idle EXCEPT !.pc = "dedup_get", !.u = lastId + 1, !.c = c,
                                    !.marked = (lastId + 1) \in dedup])
       \/ /\ lastId > 0
          /\ UNCHANGED <<lastId, last, handled>>
          /\ Set(i, [Idle EXCEPT !.pc = "dedup_get", !.u = lastId, !.c = last,
                                  !.marked = lastId \in dedup])
    /\ UNCHANGED <<table, dedup, s3, used, now, ticks, faults, offset, level, poll, sent>>

\* ------------------------------------------------------------ process_telegram_update
\* the ledger check dropped: nothing is ever a duplicate
IsDuplicate_never(u, ledger) == FALSE

\* 'Item' in dedup_resp
IsDuplicate(u, ledger) == u \in ledger

\* table.get_item on the ledger; a raise falls into "except: pass"
dedup_get(i) ==
    /\ inv[i].pc = "dedup_get"
    /\ \E ok \in BOOLEAN :
        /\ Call(ok)
        /\ Set(i, IF ~ok THEN [inv[i] EXCEPT !.pc = "handle", !.faulted = TRUE,
                                              !.ledger = "raised"]
                  ELSE IF IsDuplicate(inv[i].u, dedup)
                  THEN [inv[i] EXCEPT !.pc = "done", !.out = "duplicate", !.ledger = "read"]
                  ELSE [inv[i] EXCEPT !.pc = "dedup_put", !.ledger = "read"])
    /\ UNCHANGED <<table, dedup, s3, used, lastId, last, handled, runs, now, ticks, offset, level, poll, sent>>

\* the marker never stored
MarkProcessed_skip(u, ledger) == ledger

\* the marker a successful put_item leaves in the ledger
MarkProcessed(u, ledger) == ledger \cup {u}

\* the marker write's exception let through instead of "except: pass"
dedup_put_abort(i) ==
    /\ inv[i].pc = "dedup_put"
    /\ \E ok \in BOOLEAN :
        /\ Call(ok)
        /\ dedup' = IF ok THEN dedup \cup {inv[i].u} ELSE dedup
        /\ Set(i, IF ok THEN [inv[i] EXCEPT !.pc = "handle", !.ledger = "marked"]
                  ELSE [inv[i] EXCEPT !.pc = "done", !.out = "exception", !.faulted = TRUE,
                                      !.ledger = "raised"])
    /\ UNCHANGED <<table, s3, used, lastId, last, handled, runs, now, ticks, offset, level, poll, sent>>

\* table.put_item of the marker; a raise falls into "except: pass"
dedup_put(i) ==
    /\ inv[i].pc = "dedup_put"
    /\ \E ok \in BOOLEAN :
        /\ Call(ok)
        /\ dedup' = IF ok THEN MarkProcessed(inv[i].u, dedup) ELSE dedup
        /\ Set(i, [inv[i] EXCEPT !.pc = "handle", !.faulted = @ \/ ~ok,
                                  !.ledger = IF ok THEN "marked" ELSE "raised"])
    /\ UNCHANGED <<table, s3, used, lastId, last, handled, runs, now, ticks, offset, level, poll, sent>>

\* ------------------------------------------------------------ handle_message
\* every payload taken for a number
Parses_always(p) == TRUE

\* int(payload.strip()) - 1 succeeds
Parses(p) == p.isnum

\* 0 <= idx < len(sessions)
InRange(idx, items) == 0 <= idx /\ idx < Cardinality(DOMAIN items)

\* a document sent down the chat path
Dispatch_doc_as_chat(r, c) ==
    CASE c.kind = "newsession" -> [r EXCEPT !.pc = "cs_query", !.ret = "newsession"]
      [] c.kind = "switch" ->
            IF Parses(c.payload) THEN [r EXCEPT !.pc = "sw_query"]
            ELSE ToReply(r, "invalid_switch", "usage_switch")
      [] c.kind = "archive" -> [r EXCEPT !.pc = "ar_query"]
      [] OTHER -> [r EXCEPT !.pc = "gcs_query"]

\* the document never looked at
HasDocument_never(c) == FALSE

\* if document:
HasDocument(c) == c.doc # NoDoc

\* text.strip()
strip(text) == [text EXCEPT !.lead = 0]

\* len(text)
len(text) == text.lead + text.body

\* a text of the maximal length rejected too
TooLong_inclusive(text) == len(text) >= MAX_MESSAGE_LENGTH

\* len(text) > MAX_MESSAGE_LENGTH
TooLong(text) == len(text) > MAX_MESSAGE_LENGTH

\* Where handle_message / handle_command sends the update
Dispatch(r, c) ==
    CASE HasDocument(c) -> [r EXCEPT !.pc = "doc"]
      [] len(c.text) = 0 \/ len(strip(c.text)) = 0 ->
            ToReply(r, "no_text", "no_text_received")
      [] TooLong(strip(c.text)) -> ToReply(r, "message_too_long", "too_long")
      [] c.kind = "newsession" -> [r EXCEPT !.pc = "cs_query", !.ret = "newsession"]
      [] c.kind = "switch" ->
            IF Parses(c.payload) THEN [r EXCEPT !.pc = "sw_query"]
            ELSE ToReply(r, "invalid_switch", "usage_switch")
      [] c.kind = "archive" -> [r EXCEPT !.pc = "ar_query"]
      [] c.kind = "unknown" -> ToReply(r, "unknown", "unknown_command")
      [] OTHER -> [r EXCEPT !.pc = "gcs_query"]

handle_message(i) ==
    /\ inv[i].pc = "handle"
    /\ handled' = IF inv[i].u = lastId THEN handled + 1 ELSE handled
    /\ Set(i, Dispatch(inv[i], inv[i].c))
    /\ UNCHANGED <<table, dedup, s3, used, lastId, last, runs, now, ticks, faults, offset, level, poll, sent>>

\* send_message / edit_message of the final reply, then return
reply(i) ==
    /\ inv[i].pc = "reply"
    /\ Set(i, [inv[i] EXCEPT !.pc = "done", !.replied = TRUE, !.acted = TRUE])
    /\ sent' = sent \cup {inv[i].u}
    /\ UNCHANGED <<table, dedup, s3, used, lastId, last, handled, runs, now, ticks, faults, offset, level, poll>>

\* the invocation has returned; its slot is free again
finish(i) ==
    /\ inv[i].pc = "done"
    /\ Set(i, Idle)
    /\ UNCHANGED <<table, dedup, s3, used, lastId, last, handled, runs, now, ticks, faults, offset, level, poll, sent>>

\* ------------------------------------------------------------ create_session
\* the deactivation loop dropped
ToDeactivate_none(items, sid) == {}

\* it.get('is_active', 0) == 1 and it['sk'] != sk
ToDeactivate(items, sid) == {s \in DOMAIN items : items[s].is_active = 1 /\ s # sid}

\* uuid4(), the item is built, then get_user_items
create_session_query(i) ==
    /\ inv[i].pc = "cs_query"
    /\ \E sid \in Ids \ used, ok \in BOOLEAN :
        /\ Call(ok)
        /\ used' = used \cup {sid}
        /\ LET items == get_user_items(table, ok)
               todo == ToDeactivate(items, sid)
           IN Set(i, [inv[i] EXCEPT !.pc = IF todo = {} THEN "cs_put" ELSE "cs_deact",
                                    !.sid = sid, !.items = items, !.todo = todo,
                                    !.sess = NewItem(now),
                                    !.faulted = @ \/ ~ok])
    /\ UNCHANGED <<table, dedup, s3, lastId, last, handled, runs, now, ticks, offset, level, poll, sent>>

\* one update_item(SET is_active = 0) of the loop over existing_items
create_session_deactivate(i) ==
    /\ inv[i].pc = "cs_deact"
    /\ \E ok \in BOOLEAN :
        /\ Call(ok)
        /\ LET s == Min(inv[i].todo)
               rest == inv[i].todo \ {s}
           IN IF ok
              THEN /\ table' = update_item(table, s, 0)
                   /\ Set(i, [inv[i] EXCEPT !.todo = rest, !.acted = TRUE,
                                            !.pc = IF rest = {} THEN "cs_put" ELSE "cs_deact"])
              ELSE /\ table' = table
                   /\ Set(i, Raise(inv[i]))
    /\ UNCHANGED <<dedup, s3, used, lastId, last, handled, runs, now, ticks, offset, level, poll, sent>>

\* where create_session returns to: /newsession replies, the chat path goes on
AfterCreate(r) ==
    IF r.ret = "newsession" THEN ToReply(r, "newsession", "created")
    ELSE IF r.ret = "start" THEN ToReply(r, "start_or_hello", "hello")
    ELSE [r EXCEPT !.pc = "guard", !.items = EmptyItems]

\* table.put_item(Item=item) of the new active session
create_session_put(i) ==
    /\ inv[i].pc = "cs_put"
    /\ \E ok \in BOOLEAN :
        /\ Call(ok)
        /\ IF ok
           THEN /\ table' = put_item(table, inv[i].sid, inv[i].sess)
                /\ Set(i, [AfterCreate(inv[i]) EXCEPT !.acted = TRUE])
           ELSE /\ table' = table
                /\ Set(i, Raise(inv[i]))
    /\ UNCHANGED <<dedup, s3, used, lastId, last, handled, runs, now, ticks, offset, level, poll, sent>>

\* ------------------------------------------------------------ /switch
\* the loop never writes 0
SwitchVal_keep(s, target) == 1

\* val = 1 if session['sk'] == target_sk else 0
SwitchVal(s, target) == IF s = target THEN 1 ELSE 0

\* idx = int(payload) - 1, get_user_items, range check
switch_query(i) ==
    /\ inv[i].pc = "sw_query"
    /\ \E ok \in BOOLEAN :
        /\ Call(ok)
        /\ LET items == get_user_items(table, ok)
               idx == inv[i].c.payload.n - 1
           IN Set(i, IF InRange(idx, items)
                     THEN [inv[i] EXCEPT !.pc = "sw_update", !.items = items,
                                         !.sid = SessionAt(items, idx),
                                         !.todo = DOMAIN items, !.faulted = @ \/ ~ok]
                     ELSE [ToReply(inv[i], "invalid_switch", "invalid_number")
                              EXCEPT !.faulted = @ \/ ~ok])
    /\ UNCHANGED <<table, dedup, s3, used, lastId, last, handled, runs, now, ticks, offset, level, poll, sent>>

\* after the loop: sessions[idx]['model_name'] raises KeyError on an item that
\* holds only its key and is_active
AfterSwitch(r) ==
    IF r.items[r.sid].full THEN ToReply(r, "switch", "switched")
    ELSE Crash(r)

\* one update_item(SET is_active = val) of the loop over sessions
switch_update(i) ==
    /\ inv[i].pc = "sw_update"
    /\ \E ok \in BOOLEAN :
        /\ Call(ok)
        /\ LET s == Min(inv[i].todo)
               rest == inv[i].todo \ {s}
               r == [inv[i] EXCEPT !.todo = rest, !.acted = TRUE]
           IN IF ok
              THEN /\ table' = update_item(table, s, SwitchVal(s, inv[i].sid))
                   /\ Set(i, IF rest = {} THEN AfterSwitch(r) ELSE r)
              ELSE /\ table' = table
                   /\ Set(i, Raise(inv[i]))
    /\ UNCHANGED <<dedup, s3, used, lastId, last, handled, runs, now, ticks, offset, level, poll, sent>>

\* ------------------------------------------------------------ archive store
\* s3_client.put_object(Key=archives/{user}/{session_id}.json, Body=body)
put_object(bucket, sid, body) ==
    [s \in DOMAIN bucket \cup {sid} |-> IF s = sid THEN body ELSE bucket[s]]

\* archive_session_to_s3: archive_data as json.dumps(default=str) writes it
archive_data(sid, session) ==
    [session_id |-> sid,
     conversation |-> json_dumps_conversation(session.conversation),
     last_message_ts |-> json_dumps_scalar(Num(session.last_message_ts)),
     imported |-> FALSE,
     original_session_id |-> 0]

HasArchive(bucket, sid) == sid \in DOMAIN bucket

\* get_archive_from_s3: json.loads of the stored body; None on NoSuchKey and
\* None on any other exception of get_object
get_archive_from_s3(bucket, sid, ok) ==
    IF ~ok THEN NoArchive
    ELSE IF ~HasArchive(bucket, sid) THEN NoArchive
    ELSE bucket[sid]

\* one call of get_archive_from_s3(user_id, session_id): what the caller gets
retrieve(i) ==
    /\ inv[i].pc = "idle"
    /\ \E sid \in Ids, ok \in BOOLEAN :
        /\ Call(ok)
        /\ Set(i, [Idle EXCEPT !.pc = "done", !.out = "retrieved", !.sid = sid,
                                !.faulted = ~ok,
                                !.got = get_archive_from_s3(s3, sid, ok)])
    /\ UNCHANGED <<table, dedup, s3, used, lastId, last, handled, runs, now, ticks, offset, level, poll, sent>>

\* ------------------------------------------------------------ /archive
\* the outcome of /archive <n> before any write
archive_query(i) ==
    /\ inv[i].pc = "ar_query"
    /\ \E ok \in BOOLEAN :
        /\ Call(ok)
        /\ LET items == get_user_items(table, ok)
               p == inv[i].c.payload
               idx == p.n - 1
               r == [inv[i] EXCEPT !.faulted = @ \/ ~ok]
           IN Set(i, IF DOMAIN items = {}
                     THEN ToReply(r, "no_sessions_to_archive", "no_sessions")
                     ELSE IF ~Parses(p)
                     THEN ToReply(r, "invalid_archive_format", "usage_archive")
                     ELSE IF ~InRange(idx, items)
                     THEN ToReply(r, "invalid_archive_number", "invalid_number")
                     ELSE IF ~items[SessionAt(items, idx)].full
                     THEN Crash(r)
                     ELSE [r EXCEPT !.pc = "ar_put", !.sid = SessionAt(items, idx),
                                    !.sess = items[SessionAt(items, idx)]])
    /\ UNCHANGED <<table, dedup, s3, used, lastId, last, handled, runs, now, ticks, offset, level, poll, sent>>

\* the result of the archive write ignored
AfterArchivePut_ignore(r, written) == [r EXCEPT !.pc = "ar_delete", !.acted = TRUE]

\* if not s3_key: reply the failure and return; else go on to the delete
AfterArchivePut(r, written) ==
    IF written THEN [r EXCEPT !.pc = "ar_delete", !.acted = TRUE]
    ELSE [ToReply(r, "archive_s3_error", "archive_failed") EXCEPT !.faulted = TRUE]

\* archive_session_to_s3: put_object, None when it raises
archive_put(i) ==
    /\ inv[i].pc = "ar_put"
    /\ \E ok \in BOOLEAN :
        /\ Call(ok)
        /\ s3' = IF ok THEN put_object(s3, inv[i].sid, archive_data(inv[i].sid, inv[i].sess))
                 ELSE s3
        /\ Set(i, AfterArchivePut(inv[i], ok))
    /\ UNCHANGED <<table, dedup, used, lastId, last, handled, runs, now, ticks, offset, level, poll, sent>>

\* the result of the delete ignored
ArchiveOutcome_success(r, deleted) == ToReply(r, "archived", "archived")

\* what /archive returns once delete_session_from_dynamodb has answered
ArchiveOutcome(r, deleted) ==
    IF deleted THEN ToReply(r, "archived", "archived")
    ELSE ToReply(r, "archive_cleanup_error", "saved_not_removed")

\* delete_session_from_dynamodb: delete_item, False when it raises
archive_delete(i) ==
    /\ inv[i].pc = "ar_delete"
    /\ \E ok \in BOOLEAN :
        /\ Call(ok)
        /\ table' = IF ok THEN delete_item(table, inv[i].sid) ELSE table
        /\ Set(i, [ArchiveOutcome(inv[i], ok) EXCEPT !.faulted = @ \/ ~ok])
    /\ UNCHANGED <<dedup, s3, used, lastId, last, handled, runs, now, ticks, offset, level, poll, sent>>

\* ------------------------------------------------------------ chat pipeline
UserMsg(u, t) == [role |-> "user", content |-> <<"text", u>>, ts |-> Num(t)]
AssistantMsg(u, ai, t) == [role |-> "assistant", content |-> <<ai, u>>, ts |-> Num(t)]

\* get_current_session: get_active_session, create_session when there is none
get_current_session(i) ==
    /\ inv[i].pc = "gcs_query"
    /\ \E ok \in BOOLEAN :
        /\ Call(ok)
        /\ LET items == get_user_items(table, ok)
               r == [inv[i] EXCEPT !.faulted = @ \/ ~ok]
           IN Set(i, IF HasActive(items)
                     THEN [r EXCEPT !.pc = "guard", !.sid = FirstActive(items),
                                    !.sess = items[FirstActive(items)]]
                     ELSE [r EXCEPT !.pc = "cs_query", !.ret = "chat"])
    /\ UNCHANGED <<table, dedup, s3, used, lastId, last, handled, runs, now, ticks, offset, level, poll, sent>>

\* the window closed one second late
PendingBusy_inclusive(p, t) == p # 0 /\ (t - p) <= GuardWindow

\* pending_since and (now - pending_since) < 55
PendingBusy(p, t) == p # 0 /\ (t - p) < GuardWindow

\* now = int(time.time()) and the pending guard
pending_guard(i) ==
    /\ inv[i].pc = "guard"
    /\ LET pending_since == inv[i].sess.pending_request_ts
           r == [inv[i] EXCEPT !.tnow = now, !.pending_since = pending_since]
       IN Set(i, IF PendingBusy(pending_since, now)
                 THEN ToReply(r, "rate_limited", "please_wait")
                 ELSE [r EXCEPT !.pc = "append_user"])
    /\ UNCHANGED <<table, dedup, s3, used, lastId, last, handled, runs, now, ticks, faults, offset, level, poll, sent>>

\* the message stored in place of the conversation
Appended_replace(session, m, t) ==
    [session EXCEPT !.conversation = <<m>>, !.last_message_ts = t]

\* append_to_conversation: the local session after the append
Appended(session, m, t) ==
    [session EXCEPT !.conversation = Append(@, m), !.last_message_ts = t]

\* append_to_conversation(session, user_msg)
append_user(i) ==
    /\ inv[i].pc = "append_user"
    /\ IF ~inv[i].sess.full
       THEN /\ Set(i, Crash(inv[i]))
            /\ UNCHANGED <<table, faults>>
       ELSE \E ok \in BOOLEAN :
            /\ Call(ok)
            /\ LET session == Appended(inv[i].sess, UserMsg(inv[i].u, inv[i].tnow), now)
               IN IF ok
                  THEN /\ table' = put_item(table, inv[i].sid, session)
                       /\ Set(i, [inv[i] EXCEPT !.pc = "mark_pending", !.sess = session,
                                                !.acted = TRUE])
                  ELSE /\ table' = table
                       /\ Set(i, Raise(inv[i]))
    /\ UNCHANGED <<dedup, s3, used, lastId, last, handled, runs, now, ticks, offset, level, poll, sent>>

\* session['pending_request_ts'] = now; table.put_item(Item=session)
mark_pending(i) ==
    /\ inv[i].pc = "mark_pending"
    /\ \E ok \in BOOLEAN :
        /\ Call(ok)
        /\ LET session == [inv[i].sess EXCEPT !.pending_request_ts = inv[i].tnow]
           IN IF ok
              THEN /\ table' = put_item(table, inv[i].sid, session)
                   /\ Set(i, [inv[i] EXCEPT !.pc = "ollama", !.sess = session])
              ELSE /\ table' = table
                   /\ Set(i, Raise(inv[i]))
    /\ UNCHANGED <<dedup, s3, used, lastId, last, handled, runs, now, ticks, offset, level, poll, sent>>

\* what call_ollama returns: the model's text, or its fallback string on a
\* non-200 answer or a transport error; it never raises
OllamaResults == {"ai", "fallback"}

call_ollama(i) ==
    /\ inv[i].pc = "ollama"
    /\ \E res \in OllamaResults :
        Set(i, [inv[i] EXCEPT !.pc = "append_assistant", !.ai = res])
    /\ UNCHANGED <<table, dedup, s3, used, lastId, last, handled, runs, now, ticks, faults, offset, level, poll, sent>>

\* the pending mark left in place
ClearPending_keep(session) == session

\* session['pending_request_ts'] = 0
ClearPending(session) == [session EXCEPT !.pending_request_ts = 0]

\* clear pending, append_to_conversation(session, ass_msg)
append_assistant(i) ==
    /\ inv[i].pc = "append_assistant"
    /\ \E ok \in BOOLEAN :
        /\ Call(ok)
        /\ LET session == Appended(ClearPending(inv[i].sess),
                                   AssistantMsg(inv[i].u, inv[i].ai, now), now)
           IN IF ok
              THEN /\ table' = put_item(table, inv[i].sid, session)
                   /\ Set(i, [ToReply(inv[i], "ai_response", "ai_text")
                                 EXCEPT !.sess = session])
              ELSE /\ table' = table
                   /\ Set(i, Raise(inv[i]))
    /\ UNCHANGED <<dedup, s3, used, lastId, last, handled, runs, now, ticks, offset, level, poll, sent>>

\* ------------------------------------------------------------ document import
\* the conversation a valid payload carries (JSON values)
DocConversation == <<[role |-> "user", content |-> <<"text", 0>>, ts |-> Str(StartTime)]>>

\* 'conversation' in archive_data
HasConversation(d) == d.body = "valid"

\* handle_document up to the call of import_archive_to_s3
handle_document(i) ==
    /\ inv[i].pc = "doc"
    /\ \E ok \in BOOLEAN :
        /\ Call(ok)
        /\ LET d == inv[i].c.doc
           IN /\ d.ftype # "json" => ok
              /\ Set(i, IF d.ftype # "json"
                        THEN ToReply(inv[i], "invalid_file_type", "send_json")
                        ELSE IF ~ok
                        THEN [ToReply(inv[i], "download_error", "download_failed")
                                 EXCEPT !.faulted = TRUE]
                        ELSE IF d.body = "unparsable"
                        THEN ToReply(inv[i], "json_parse_error", "invalid_json")
                        ELSE IF ~HasConversation(d)
                        THEN ToReply(inv[i], "invalid_archive_format", "missing_conversation")
                        ELSE [inv[i] EXCEPT !.pc = "import_put"])
    /\ UNCHANGED <<table, dedup, s3, used, lastId, last, handled, runs, now, ticks, offset, level, poll, sent>>

\* the payload's own session_id kept as the key
ImportKey_original(new, d) == IF d.orig # 0 THEN d.orig ELSE new

\* the archive key import_archive_to_s3 writes: the fresh uuid4
ImportKey(new, d) == new

\* imported_data
imported_data(new, d) ==
    [session_id |-> new,
     conversation |-> DocConversation,
     last_message_ts |-> Str(0),
     imported |-> TRUE,
     original_session_id |-> d.orig]

\* import_archive_to_s3: uuid4, put_object, None when it raises
import_archive_to_s3(i) ==
    /\ inv[i].pc = "import_put"
    /\ \E new \in Ids \ used, ok \in BOOLEAN :
        /\ Call(ok)
        /\ used' = used \cup {new}
        /\ LET d == inv[i].c.doc
           IN IF ok
              THEN /\ s3' = put_object(s3, ImportKey(new, d), imported_data(new, d))
                   /\ Set(i, [ToReply(inv[i], "imported", "imported")
                                 EXCEPT !.sid = new, !.acted = TRUE])
              ELSE /\ s3' = s3
                   /\ Set(i, [ToReply(inv[i], "import_error", "import_failed")
                                 EXCEPT !.faulted = TRUE])
    /\ UNCHANGED <<table, dedup, lastId, last, handled, runs, now, ticks, offset, level, poll, sent>>

\* ------------------------------------------------------------ webhook mode
\* the exception of process_telegram_update passed on as a server error
WebhookResponse_propagate(out) ==
    [statusCode |-> IF out = "exception" THEN 500 ELSE 200,
     ok |-> out \notin {"exception", "invalid_json"}]

\* what lambda_handler returns to the gateway: statusCode 200 in all three
\* branches, "ok": False in the two except branches
WebhookResponse(out) ==
    [statusCode |-> 200, ok |-> out \notin {"exception", "invalid_json"}]

\* a request whose body is not JSON: json.loads raises JSONDecodeError before
\* process_telegram_update is called
webhook_invalid(i) ==
    /\ inv[i].pc = "idle"
    /\ runs < MaxRuns
    /\ runs' = runs + 1
    /\ Set(i, [Idle EXCEPT !.pc = "done", !.out = "invalid_json"])
    /\ UNCHANGED <<table, dedup, s3, used, lastId, last, handled, now, ticks, faults, offset, level, poll, sent>>

\* lambda_handler returns: after process_telegram_update, or from one of its
\* two except branches
webhook_return(i) ==
    /\ inv[i].pc = "done"
    /\ inv[i].status = NoStatus
    /\ Set(i, [inv[i] EXCEPT !.status = WebhookResponse(inv[i].out)])
    /\ UNCHANGED <<table, dedup, s3, used, lastId, last, handled, runs, now, ticks, faults, offset, level, poll, sent>>

\* ------------------------------------------------------------ polling mode
\* every polled update carries chat text
PolledContent == [kind |-> "chat", payload |-> NaN, doc |-> NoDoc, text |-> ShortText]

\* an update for the bot arrives at the platform and waits for getUpdates
\* (at most n of them)
Arrive(n) ==
    /\ lastId < n
    /\ lastId' = lastId + 1
    /\ last' = PolledContent
    /\ handled' = 0
    /\ UNCHANGED <<table, dedup, s3, used, runs, now, ticks, faults, inv, offset, level, poll, sent>>

\* getUpdates(offset, limit): an offset above the confirmation level confirms
\* every update below it; the oldest PollLimit unconfirmed updates come back
Confirmed(lvl, off) == IF off > lvl THEN off ELSE lvl
BatchEnd(lo, newest) == IF newest < lo + PollLimit - 1 THEN newest ELSE lo + PollLimit - 1

\* the offset written with the cursor left where the batch began
NextOffset_stale(r) == r.last_offset

\* new_offset = max_update_id + 1
NextOffset(r) == r.max_update_id + 1

\* get_last_offset: the stored value, 0 when there is none or the read raised
get_last_offset ==
    /\ poll.pc = "idle"
    /\ \E ok \in BOOLEAN :
        /\ Call(ok)
        /\ LET last_offset == IF ok THEN offset ELSE 0
           IN poll' = [Resting EXCEPT !.last_offset = last_offset,
                                      !.pc = IF last_offset = 0 THEN "first_poll" ELSE "poll"]
    /\ UNCHANGED <<table, dedup, s3, used, lastId, last, handled, runs, now, ticks, inv,
                   offset, level, sent>>

\* first run: poll_messages(0); the last update of the result is the one to
\* process; a failed poll falls through to the normal poll
first_run_poll ==
    /\ poll.pc = "first_poll"
    /\ \E ok \in BOOLEAN :
        /\ Call(ok)
        /\ LET lo == level
               hi == BatchEnd(lo, lastId)
           IN poll' = IF ~ok THEN [poll EXCEPT !.pc = "poll"]
                      ELSE IF lo <= hi
                      THEN [poll EXCEPT !.pc = "process", !.first = TRUE, !.lo = lo,
                                        !.hi = hi, !.cur = hi]
                      ELSE [poll EXCEPT !.pc = "save", !.first = TRUE, !.lo = lo,
                                        !.hi = hi, !.new_offset = 1]
    /\ UNCHANGED <<table, dedup, s3, used, lastId, last, handled, runs, now, ticks, inv,
                   offset, level, sent>>

\* poll_messages(last_offset) of the normal branch
poll_messages ==
    /\ poll.pc = "poll"
    /\ \E ok \in BOOLEAN :
        /\ Call(ok)
        /\ LET lo == IF poll.last_offset > 0 THEN Confirmed(level, poll.last_offset)
                     ELSE level
               hi == BatchEnd(lo, lastId)
           IN /\ level' = IF ok THEN lo ELSE level
              /\ poll' = IF ~ok THEN [poll EXCEPT !.pc = "done", !.status = 400]
                         ELSE IF lo <= hi
                         THEN [poll EXCEPT !.pc = "process", !.lo = lo, !.hi = hi,
                                           !.cur = lo, !.max_update_id = poll.last_offset]
                         ELSE [poll EXCEPT !.pc = "done", !.status = 200, !.lo = lo,
                                           !.hi = hi]
    /\ UNCHANGED <<table, dedup, s3, used, lastId, last, handled, runs, now, ticks, inv,
                   offset, sent>>

Max(a, b) == IF a < b THEN b ELSE a

\* where the loop goes once update poll.cur is behind it
AfterUpdate(r) ==
    LET q == [r EXCEPT !.max_update_id = Max(r.max_update_id, r.cur)]
    IN IF q.first THEN [q EXCEPT !.pc = "save", !.new_offset = q.cur + 1]
       ELSE IF q.cur < q.hi THEN [q EXCEPT !.pc = "process", !.cur = q.cur + 1]
       ELSE IF q.max_update_id >= q.last_offset
       THEN [q EXCEPT !.pc = "save", !.new_offset = NextOffset(q)]
       ELSE [q EXCEPT !.pc = "done", !.status = 200]

\* the loop body: an update below last_offset is skipped, any other is handed
\* to process_telegram_update
poll_process ==
    /\ poll.pc = "process"
    /\ IF poll.last_offset > 0 /\ poll.cur < poll.last_offset
       THEN /\ poll' = AfterUpdate(poll)
            /\ UNCHANGED <<runs, inv>>
       ELSE /\ inv[1].pc = "idle"
            /\ runs < MaxRuns
            /\ runs' = runs + 1
            /\ Set(1, [Idle EXCEPT !.pc = "dedup_get", !.u = poll.cur, !.c = PolledContent,
                                    !.marked = poll.cur \in dedup])
            /\ poll' = [poll EXCEPT !.pc = "wait"]
    /\ UNCHANGED <<table, dedup, s3, used, lastId, last, handled, now, ticks, faults,
                   offset, level, sent>>

\* process_telegram_update has returned, or its exception reaches the outer
\* except of lambda_handler, which returns 500
poll_collect ==
    /\ poll.pc = "wait"
    /\ inv[1].pc = "done"
    /\ Set(1, Idle)
    /\ poll' = IF inv[1].out = "exception"
               THEN [poll EXCEPT !.pc = "done", !.status = 500, !.failed = poll.cur]
               ELSE AfterUpdate([poll EXCEPT !.processed = @ \cup {poll.cur}])
    /\ UNCHANGED <<table, dedup, s3, used, lastId, last, handled, runs, now, ticks, faults,
                   offset, level, sent>>

\* save_offset(new_offset): put_item, a raise is logged and swallowed
save_offset ==
    /\ poll.pc = "save"
    /\ \E ok \in BOOLEAN :
        /\ Call(ok)
        /\ offset' = IF ok THEN poll.new_offset ELSE offset
        /\ poll' = [poll EXCEPT !.pc = "done", !.status = 200]
    /\ UNCHANGED <<table, dedup, s3, used, lastId, last, handled, runs, now, ticks, inv,
                   level, sent>>

\* lambda_handler returns its status record
poll_return ==
    /\ poll.pc = "done"
    /\ poll' = Resting
    /\ UNCHANGED <<table, dedup, s3, used, lastId, last, handled, runs, now, ticks, faults,
                   inv, offset, level, sent>>

\* ------------------------------------------------------------ specifications
Router(i) ==
    \/ dedup_get(i)
    \/ dedup_put(i)
    \/ handle_message(i)
    \/ reply(i)
    \/ finish(i)

Creation(i) ==
    \/ create_session_query(i)
    \/ create_session_deactivate(i)
    \/ create_session_put(i)

Switching(i) ==
    \/ switch_query(i)
    \/ switch_update(i)

Chat(i) ==
    \/ get_current_session(i)
    \/ pending_guard(i)
    \/ append_user(i)
    \/ mark_pending(i)
    \/ call_ollama(i)
    \/ append_assistant(i)

Archive(i) ==
    \/ archive_query(i)
    \/ archive_put(i)
    \/ archive_delete(i)

Import(i) ==
    \/ handle_document(i)
    \/ import_archive_to_s3(i)

\* Invocations overlap freely; the stores answer every call (the fault
\* budget is spent from the start).
InitReliable ==
    /\ table = EmptyItems
    /\ dedup = {}
    /\ s3 = [s \in {} |-> 0]
    /\ used = {}
    /\ lastId = 0
    /\ last = NoContent
    /\ handled = 0
    /\ runs = 0
    /\ now = StartTime
    /\ ticks = 0
    /\ faults = MaxFaults
    /\ inv = [i \in Inv |-> Idle]
    /\ offset = 0
    /\ level = 1
    /\ poll = Resting
    /\ sent = {}

TextContents == {c \in Contents : c.kind # "doc"}

\* a free slot takes the update; of two free slots the first one does
Overlapping(i) == (i = 1 \/ inv[1].pc # "idle") /\ Deliver(i, TextContents)

Next ==
    \E i \in Inv :
        Overlapping(i) \/ Router(i) \/ Creation(i) \/ Switching(i) \/ Chat(i) \/ Archive(i)

Spec == InitReliable /\ [][Next]_vars

\* /newsession and /switch only, one after another, stores reliable
LifecycleContents == {c \in Contents : c.kind \in {"newsession", "switch"}}

LifecycleOnly(i) == i = 1 /\ AllIdle /\ Deliver(i, LifecycleContents)

NextLifecycle == \E i \in Inv : LifecycleOnly(i) \/ Router(i) \/ Creation(i) \/ Switching(i)

SpecLifecycle == InitReliable /\ [][NextLifecycle]_vars

\* Chat text and /archive, one invocation at a time (an update is delivered
\* only when no other invocation is running); store calls may fail.
ArchivingContents == {c \in Contents : c.kind \in {"chat", "archive"}}

ArchivingOnly(i) == i = 1 /\ AllIdle /\ Deliver(i, ArchivingContents)

NextArchiving ==
    \E i \in Inv : ArchivingOnly(i) \/ Router(i) \/ Creation(i) \/ Chat(i) \/ Archive(i)

SpecArchiving == Init /\ [][NextArchiving]_vars

\* Chat text and document uploads, one invocation at a time; store and
\* transport calls may fail.
ImportContents == {c \in Contents : c.kind \in {"chat", "doc"}}

ImportOnly(i) == i = 1 /\ AllIdle /\ Deliver(i, ImportContents)

NextImport ==
    \E i \in Inv : ImportOnly(i) \/ Router(i) \/ Creation(i) \/ Chat(i) \/ Import(i)

SpecImport == Init /\ [][NextImport]_vars

\* Chat text, /archive and document uploads (among them the export of an
\* archived session sent back), one invocation at a time; the stores answer
\* every call.
TransferContents == {c \in Contents : c.kind \in {"chat", "archive", "doc"}}

TransferOnly(i) == i = 1 /\ AllIdle /\ Deliver(i, TransferContents)

NextTransfer ==
    \E i \in Inv :
        \/ TransferOnly(i) \/ Router(i) \/ Chat(i) \/ Archive(i) \/ Import(i)
        \/ create_session_query(i) \/ create_session_put(i)

SpecTransfer == InitReliable /\ [][NextTransfer]_vars

\* Chat text only, one invocation at a time; calls may fail and the clock may
\* jump between two deliveries while a pending mark is stored (at any other
\* time a jump changes nothing but the timestamps of later messages).
ChatContents == {c \in Contents : c.kind = "chat"}

ChatOnly(i) == i = 1 /\ AllIdle /\ Deliver(i, ChatContents)

TickBetween ==
    /\ 0 < runs /\ runs < MaxRuns /\ AllIdle
    /\ \E s \in DOMAIN table : table[s].pending_request_ts # 0
    /\ Tick

NextChat == TickBetween \/ \E i \in Inv : ChatOnly(i) \/ Router(i) \/ Creation(i) \/ Chat(i)

SpecChat == Init /\ [][NextChat]_vars

\* Polling mode: updates arrive at the platform, one poller fetches and
\* processes them; store and transport calls may fail.
Poller ==
    \/ get_last_offset
    \/ first_run_poll
    \/ poll_messages
    \/ poll_process
    \/ poll_collect
    \/ save_offset
    \/ poll_return

Processing(i) ==
    \/ dedup_get(i)
    \/ dedup_put(i)
    \/ handle_message(i)
    \/ reply(i)

\* as many updates arrive as the invocations can process
NextPoll == Arrive(MaxRuns) \/ Poller \/ \E i \in Inv : Processing(i) \/ Creation(i) \/ Chat(i)

SpecPoll == Init /\ [][NextPoll]_vars

\* Polling mode with a backlog: more updates arrive than one getUpdates call
\* returns.
NextBacklog ==
    Arrive(MaxUpdates) \/ Poller \/ \E i \in Inv : Processing(i) \/ Creation(i) \/ Chat(i)

SpecBacklog == Init /\ [][NextBacklog]_vars

\* Chat text and /newsession, one invocation at a time; store calls may fail.
SessionContents == {c \in Contents : c.kind \in {"chat", "newsession"}}

SessionsOnly(i) == i = 1 /\ AllIdle /\ Deliver(i, SessionContents)

NextSessions == \E i \in Inv : SessionsOnly(i) \/ Router(i) \/ Creation(i) \/ Chat(i)

SpecSessions == Init /\ [][NextSessions]_vars

\* Every shape of message, one invocation at a time: texts of every length
\* class as chat text, as /newsession or as a command that does not exist, and
\* documents with and without such a text; the stores answer every call.
DispatchContents ==
    {[kind |-> "chat", payload |-> NaN, doc |-> NoDoc, text |-> t] : t \in Texts}
    \cup {[kind |-> k, payload |-> NaN, doc |-> NoDoc, text |-> t] :
             k \in {"newsession", "unknown"}, t \in {x \in Texts : x.body > 0}}
    \cup {[kind |-> k, payload |-> NaN, doc |-> d, text |-> ShortText] :
             k \in {"chat", "newsession", "unknown"},
             d \in {x \in Documents : x.orig = 0 /\ x.body # "unparsable"}}
    \cup {c \in Contents : c.kind = "doc"}

DispatchOnly(i) == i = 1 /\ AllIdle /\ Deliver(i, DispatchContents)

NextDispatch ==
    \E i \in Inv : DispatchOnly(i) \/ Router(i) \/ Creation(i) \/ Chat(i) \/ Import(i)

SpecDispatch == InitReliable /\ [][NextDispatch]_vars

\* /archive and chat text, one invocation at a time, for a user who has one or
\* two sessions, one of them active (as /newsession and /switch leave them);
\* the stores answer every call.
InitStocked ==
    /\ \E S \in SUBSET Ids, a \in Ids :
        /\ Cardinality(S) \in 1..2 /\ a \in S
        /\ table = [s \in S |-> [NewItem(StartTime) EXCEPT !.is_active = SwitchVal(s, a)]]
        /\ used = S
    /\ dedup = {}
    /\ s3 = [s \in {} |-> 0]
    /\ lastId = 0
    /\ last = NoContent
    /\ handled = 0
    /\ runs = 0
    /\ now = StartTime
    /\ ticks = 0
    /\ faults = MaxFaults
    /\ inv = [i \in Inv |-> Idle]
    /\ offset = 0
    /\ level = 1
    /\ poll = Resting
    /\ sent = {}

RotationContents == {c \in Contents : c.kind \in {"archive", "chat"}}

RotationOnly(i) == i = 1 /\ AllIdle /\ Deliver(i, RotationContents)

NextRotation ==
    \E i \in Inv :
        \/ RotationOnly(i) \/ Router(i) \/ Chat(i) \/ Archive(i)
        \/ create_session_query(i) \/ create_session_put(i)

SpecRotation == InitStocked /\ [][NextRotation]_vars

\* lambda_handler as a whole, one invocation at a time. The bot is served in
\* one of the two modes: with a webhook set the gateway calls lambda_handler
\* with a body (a chat update, a redelivery, or a body that is not JSON) and
\* nobody polls; with none set, updates wait at the platform for a polling run.
\* Store and transport calls may fail.
WebhookSet == [Resting EXCEPT !.pc = "off"]

InitHandler ==
    /\ table = EmptyItems
    /\ dedup = {}
    /\ s3 = [s \in {} |-> 0]
    /\ used = {}
    /\ lastId = 0
    /\ last = NoContent
    /\ handled = 0
    /\ runs = 0
    /\ now = StartTime
    /\ ticks = 0
    /\ faults = 0
    /\ inv = [i \in Inv |-> Idle]
    /\ offset = 0
    /\ level = 1
    /\ poll \in {Resting, WebhookSet}
    /\ sent = {}

Webhook(i) ==
    /\ i = 1 /\ AllIdle /\ poll = WebhookSet
    /\ Deliver(i, ChatContents) \/ webhook_invalid(i)

Returning(i) ==
    \/ poll = WebhookSet /\ webhook_return(i)
    \/ inv[i].status # NoStatus /\ finish(i)

NextHandler ==
    \/ poll # WebhookSet /\ Arrive(MaxRuns)
    \/ Poller
    \/ \E i \in Inv : Webhook(i) \/ Returning(i) \/ Processing(i) \/ Creation(i) \/ Chat(i)

SpecHandler == InitHandler /\ [][NextHandler]_vars

\* get_archive_from_s3 called on a bucket that holds the archives of some
\* sessions, for keys that exist and keys that do not
InitArchived ==
    /\ table = EmptyItems
    /\ dedup = {}
    /\ s3 \in {[s \in S |-> archive_data(s, NewItem(StartTime))] : S \in SUBSET Ids}
    /\ used = DOMAIN s3
    /\ lastId = 0
    /\ last = NoContent
    /\ handled = 0
    /\ runs = 0
    /\ now = StartTime
    /\ ticks = 0
    /\ faults = 0
    /\ inv = [i \in Inv |-> Idle]
    /\ offset = 0
    /\ level = 1
    /\ poll = Resting
    /\ sent = {}

NextRetrieve == \E i \in Inv : retrieve(i) \/ finish(i)

SpecRetrieve == InitArchived /\ [][NextRetrieve]_vars

\* ------------------------------------------------------------ claims
Finished(i) == inv[i].pc = "done"
NumActive == Cardinality(ActiveIds(table))

\* C1 as stated: an update whose marker was stored when it was delivered again
\* is always answered "duplicate", without any write, completion call or
\* reply, so that its effects are applied exactly once.
C1_AsStated ==
    \A i \in Inv :
        (Finished(i) /\ inv[i].marked) =>
            /\ inv[i].out = "duplicate"
            /\ ~inv[i].acted /\ ~inv[i].replied
            /\ handled = 1

\* C1 amended: an update whose marker was stored when it was delivered again,
\* and whose ledger read succeeds, is answered "duplicate" without any write,
\* completion call or reply; while no store call has failed the update has been
\* handled exactly once.
C1_DedupIdempotent ==
    \A i \in Inv :
        (inv[i].marked /\ inv[i].ledger = "read") =>
            /\ inv[i].pc = "done"
            /\ inv[i].out = "duplicate"
            /\ ~inv[i].acted /\ ~inv[i].replied
            /\ faults = 0 => handled = 1

C1_Witness ==
    \E i \in Inv :
        /\ Finished(i) /\ inv[i].marked /\ inv[i].out = "duplicate"
        /\ inv[i].c.kind = "chat"
        /\ handled = 1
        /\ \E s \in DOMAIN table : Len(table[s].conversation) = 2

\* C2: an update id delivered to overlapping invocations is handled by
\* handle_message at most once.
C2_HandledAtMostOnce == handled <= 1

\* C3 as stated: after every /newsession and every /switch that ran alone and
\* without store failure exactly one session is active.
C3_AsStated ==
    \A i \in Inv :
        (Finished(i) /\ inv[i].out # "duplicate") => NumActive = 1

\* C3 amended: after every /newsession and every /switch with an index in
\* range exactly one session is active; a /switch that is rejected leaves the
\* active flags as they were (at most one active, none when the user has no
\* session yet).
C3_SingleActive ==
    \A i \in Inv :
        /\ (Finished(i) /\ inv[i].out \in {"newsession", "switch"}) => NumActive = 1
        /\ (Finished(i) /\ inv[i].out = "invalid_switch") =>
                /\ NumActive <= 1
                /\ NumActive = 0 => DOMAIN table = {}

C3_Witness ==
    \E i \in Inv :
        /\ Finished(i) /\ inv[i].out = "switch"
        /\ Cardinality(DOMAIN table) = 2
        /\ inv[i].sid = Min(DOMAIN table)
        /\ ActiveIds(table) = {inv[i].sid}

\* C4: in every reachable state of the session table at most one session of
\* the user is active.
C4_AtMostOneActive == NumActive <= 1

\* C5: once /archive has returned "archived" (no store call having failed),
\* the archive read back has the conversation the session had, and the
\* session is gone from the table.
C5_ArchiveRoundTrip ==
    \A i \in Inv :
        (Finished(i) /\ inv[i].out = "archived" /\ faults = 0) =>
            /\ HasArchive(s3, inv[i].sid)
            /\ get_archive_from_s3(s3, inv[i].sid, TRUE).conversation = inv[i].sess.conversation
            /\ inv[i].sid \notin DOMAIN get_user_items(table, TRUE)

\* C6: when the archive write has succeeded, a failed delete makes /archive
\* return "archive_cleanup_error" with its own message, the session still
\* stored and the archive object present; a delete that worked makes it return
\* "archived", and a failed write "archive_s3_error", each with another message.
C6_PartialSuccess ==
    /\ [][\A i \in Inv :
            (inv[i].pc = "ar_delete" /\ inv'[i].pc # "ar_delete") =>
                IF faults' > faults
                THEN /\ inv'[i].out = "archive_cleanup_error"
                     /\ inv'[i].msg = "saved_not_removed"
                     /\ inv[i].sid \in DOMAIN table'
                     /\ HasArchive(s3', inv[i].sid)
                ELSE /\ inv'[i].out = "archived"
                     /\ inv'[i].msg = "archived"
                     /\ inv[i].sid \notin DOMAIN table']_vars
    /\ [][\A i \in Inv :
            (inv[i].pc = "ar_put" /\ faults' > faults) =>
                /\ inv'[i].out = "archive_s3_error"
                /\ inv'[i].msg = "archive_failed"]_vars

C6_Witness ==
    \E i \in Inv :
        /\ Finished(i) /\ inv[i].out = "archive_cleanup_error"
        /\ inv[i].replied
        /\ inv[i].sid \in DOMAIN table
        /\ HasArchive(s3, inv[i].sid)

\* C7: a session item leaves the table only in the delete step of an /archive
\* whose own archive write for that session succeeded; no other step removes an
\* item, and an /archive whose write failed goes no further.
C7_DeletedOnlyAfterArchive ==
    /\ [][\A s \in DOMAIN table :
            s \notin DOMAIN table' =>
                \E i \in Inv :
                    /\ inv[i].pc = "ar_delete" /\ inv[i].sid = s
                    /\ inv'[i].out = "archived"
                    /\ HasArchive(s3, s)]_vars
    /\ [][\A i \in Inv :
            (inv[i].pc = "ar_put" /\ faults' > faults) =>
                (table' = table /\ inv'[i].pc = "reply")]_vars

C7_Witness ==
    \E i \in Inv :
        /\ Finished(i) /\ inv[i].out = "archived"
        /\ inv[i].sid \notin DOMAIN table
        /\ HasArchive(s3, inv[i].sid)
        /\ DOMAIN table # {}

\* C8: a chat message is rejected as busy exactly when the session it read
\* has a non-zero pending_request_ts less than 55 seconds old; a rejected
\* message appends nothing and calls no completion.
C8_PendingGuard ==
    \A i \in Inv :
        LET p == inv[i].sess.pending_request_ts
            age == inv[i].tnow - p
        IN /\ inv[i].out = "rate_limited" =>
                /\ p # 0 /\ age < 55
                /\ inv[i].ai = "none"
                /\ inv[i].pc = "reply" => ~inv[i].acted
                /\ inv[i].sid \in DOMAIN table =>
                      table[inv[i].sid].conversation = inv[i].sess.conversation
           /\ inv[i].pc = "append_user" => (p = 0 \/ age >= 55)

C8_Witness ==
    \E i \in Inv :
        /\ Finished(i) /\ inv[i].out = "rate_limited"
        /\ inv[i].tnow - inv[i].sess.pending_request_ts = 54

\* C9: a chat message that passed the pending guard has, when its invocation
\* ends, a reply sent and the stored pending_request_ts of its session at 0.
PassedGuard(i) == inv[i].c.kind = "chat" /\ inv[i].tnow # 0 /\ inv[i].out # "rate_limited"

C9_TurnCompletes ==
    \A i \in Inv :
        (Finished(i) /\ PassedGuard(i)) =>
            /\ inv[i].replied
            /\ inv[i].sid \in DOMAIN table
            /\ table[inv[i].sid].pending_request_ts = 0

DocOutcomes == {"invalid_file_type", "download_error", "json_parse_error",
                "invalid_archive_format", "import_error", "imported"}

C11_ImportLeavesSessions ==
    /\ [][\A i \in Inv :
            (inv[i].c.kind = "doc" /\ inv[i].pc # "idle") => table' = table]_vars
    /\ [](\A i \in Inv :
            (Finished(i) /\ inv[i].c.kind = "doc") =>
                inv[i].out \in DocOutcomes \cup {"duplicate"})

C11_Witness ==
    \E i \in Inv :
        /\ Finished(i) /\ inv[i].c.kind = "doc" /\ inv[i].out = "import_error"
        /\ inv[i].replied
        /\ DOMAIN table # {}

\* C12: a /switch n with 1 <= n <= k (k sessions stored, one command at a
\* time) returns "switch" and leaves the n-th session in retrieval order as
\* the only active one; every write of the command changes is_active of one
\* stored session and nothing else.
SwitchInRange(i) ==
    /\ inv[i].c.kind = "switch" /\ Parses(inv[i].c.payload)
    /\ 1 <= inv[i].c.payload.n /\ inv[i].c.payload.n <= Cardinality(DOMAIN table)

C12_SwitchActivatesNth ==
    /\ [](\A i \in Inv :
            (Finished(i) /\ SwitchInRange(i) /\ inv[i].out # "duplicate") =>
                /\ inv[i].out = "switch"
                /\ inv[i].sid = SessionAt(table, inv[i].c.payload.n - 1)
                /\ table[inv[i].sid].is_active = 1
                /\ \A s \in DOMAIN table \ {inv[i].sid} : table[s].is_active = 0)
    /\ [][\A i \in Inv :
            inv[i].pc = "sw_update" =>
                /\ DOMAIN table' = DOMAIN table
                /\ \A s \in DOMAIN table :
                      table'[s] = [table[s] EXCEPT !.is_active = table'[s].is_active]]_vars

C12_Witness ==
    \E i \in Inv :
        /\ Finished(i) /\ inv[i].out = "switch"
        /\ inv[i].c.payload.n = 2
        /\ Cardinality(DOMAIN table) = 2
        /\ ActiveIds(table) = {inv[i].sid}
        /\ \A s \in DOMAIN table : s <= inv[i].sid

\* C13 as stated: a /switch whose argument is an integer above the number of
\* sessions gets the out-of-range reply, one whose argument is not a positive
\* integer (not a number, empty, zero, negative) gets the usage reply.
C13_AsStated ==
    \A i \in Inv :
        (Finished(i) /\ inv[i].c.kind = "switch" /\ inv[i].out = "invalid_switch") =>
            LET p == inv[i].c.payload
            IN IF p.isnum /\ p.n >= 1 THEN inv[i].msg = "invalid_number"
               ELSE inv[i].msg = "usage_switch"

\* C13 amended: a /switch whose argument is an integer outside [1, len] (zero
\* included) gets the out-of-range reply, one whose argument is not an integer
\* gets the usage reply; the rejected command writes nothing.
SwitchRejected(i) ==
    /\ inv[i].c.kind = "switch"
    /\ ~(Parses(inv[i].c.payload) /\ 1 <= inv[i].c.payload.n
            /\ inv[i].c.payload.n <= Cardinality(DOMAIN table))

C13_SwitchRejects ==
    /\ [](\A i \in Inv :
            (Finished(i) /\ SwitchRejected(i) /\ inv[i].out # "duplicate") =>
                /\ inv[i].out = "invalid_switch"
                /\ inv[i].replied
                /\ inv[i].msg = IF inv[i].c.payload.isnum THEN "invalid_number"
                                ELSE "usage_switch")
    /\ [][\A i \in Inv :
            (inv[i].pc # "idle" /\ SwitchRejected(i)) => table' = table]_vars

C13_Witness ==
    \E i \in Inv :
        /\ Finished(i) /\ inv[i].out = "invalid_switch"
        /\ inv[i].c.payload = Number(0)
        /\ inv[i].msg = "invalid_number"
        /\ Cardinality(DOMAIN table) = 2

\* C14: chat messages handled one after another with the stores answering
\* all get the same session from get_current_session: it is the stored active
\* one, it is created (active, empty conversation) only when the table holds
\* none, and no second session is ever created.
C14_CurrentSessionStable ==
    /\ [](faults = 0 =>
            /\ Cardinality(DOMAIN table) <= 1
            /\ \A i \in Inv :
                  inv[i].pc = "guard" =>
                      /\ DOMAIN table = {inv[i].sid}
                      /\ table[inv[i].sid].is_active = 1
                      /\ inv[i].sess = table[inv[i].sid])
    /\ [][\A i \in Inv :
            (inv[i].pc = "cs_put" /\ faults' = 0) =>
                /\ table = EmptyItems
                /\ table' = put_item(EmptyItems, inv[i].sid, NewItem(now))]_vars

C14_Witness ==
    \E i \in Inv :
        /\ Finished(i) /\ inv[i].out = "ai_response" /\ faults = 0
        /\ lastId = 2
        /\ DOMAIN table = {inv[i].sid}
        /\ Len(table[inv[i].sid].conversation) = 4

\* C15: on a first run (no offset stored, no call having failed) the update
\* picked for processing is the newest one pending at the platform; on every
\* first run it is the only one processed and the offset saved is its id + 1.
C15_FirstRunNewestOnly ==
    /\ [][(poll.pc = "first_poll" /\ poll'.pc = "process" /\ faults' = 0) =>
            poll'.cur = lastId]_vars
    /\ [][(poll.first /\ poll.pc = "save" /\ poll.lo <= poll.hi) =>
            (poll.processed = {poll.hi} /\ poll.new_offset = poll.hi + 1)]_vars

\* C16: no step lowers the stored offset.
C16_OffsetMonotone == [][offset' >= offset]_vars

\* C17: in the normal branch the offset is written only by the save that
\* follows the loop, when every update of the fetched batch has been through
\* process_telegram_update, and the value written is the batch's largest
\* update id + 1.
C17_SaveAfterBatch ==
    /\ [][(~poll.first /\ poll.pc # "idle" /\ offset' # offset) => poll.pc = "save"]_vars
    /\ [][(~poll.first /\ poll.pc = "save" /\ poll'.pc = "done" /\ faults' = faults) =>
            /\ poll.processed = poll.lo..poll.hi
            /\ offset' = poll.hi + 1]_vars
    /\ [](poll.pc = "save" => poll.first \/ poll.lo <= poll.hi)

C17_Witness ==
    /\ poll.pc = "done" /\ ~poll.first /\ poll.status = 200
    /\ poll.last_offset > 0
    /\ poll.lo < poll.hi
    /\ poll.processed = poll.lo..poll.hi
    /\ offset = poll.hi + 1

\* C18: when process_telegram_update raised for one update of a batch, the
\* invocation has processed every later update of that batch when it returns.
C18_BatchIsolation ==
    (poll.pc = "done" /\ poll.failed # 0) =>
        \A u \in (poll.failed + 1)..poll.hi : u \in poll.processed

\* C19: every update that reached handle_message has been answered when its
\* invocation ends: the final reply or at least the "Thinking..." message
\* (sent right after the pending mark was stored) has gone out.
ThinkingSent(i) == inv[i].tnow # 0 /\ inv[i].sess.pending_request_ts = inv[i].tnow

C19_AlwaysAnswered ==
    \A i \in Inv :
        (Finished(i) /\ inv[i].out # "duplicate") => (inv[i].replied \/ ThinkingSent(i))

\* C20: the value get_archive_from_s3 returns for a key that is not in the
\* bucket differs from the value it returns when get_object fails otherwise.
C20_NotFoundDistinct ==
    \A i, j \in Inv :
        (/\ Finished(i) /\ inv[i].out = "retrieved"
         /\ ~inv[i].faulted /\ ~HasArchive(s3, inv[i].sid)
         /\ Finished(j) /\ inv[j].out = "retrieved" /\ inv[j].faulted)
            => inv[i].got # inv[j].got

\* C21: an archive object, once written, is never written again: no /archive
\* and no import puts an object under a key the bucket already holds, and no
\* step changes or removes a stored object.
C21_ArchivesImmutable ==
    /\ [][\A i \in Inv :
            (inv[i].pc = "ar_put" /\ faults' = faults) => ~HasArchive(s3, inv[i].sid)]_vars
    /\ [][\A i \in Inv :
            (inv[i].pc = "import_put" /\ inv'[i].out = "imported") =>
                ~HasArchive(s3, inv'[i].sid)]_vars
    /\ [][\A s \in DOMAIN s3 : s \in DOMAIN s3' /\ s3'[s] = s3[s]]_vars

\* C22: when the ledger read or the marker write raises, the next thing the
\* invocation does is handle_message for the update, and unless
\* handle_message itself raises the update is reported processed (never
\* "duplicate"), with its reply sent.
C22_DedupFailureProceeds ==
    /\ [][\A i \in Inv :
            (inv[i].pc \in {"dedup_get", "dedup_put"} /\ faults' > faults) =>
                (inv'[i].pc = "handle" /\ inv'[i].ledger = "raised")]_vars
    /\ [](\A i \in Inv :
            (inv[i].ledger = "raised" /\ inv[i].pc \notin {"handle", "idle"}) =>
                /\ inv[i].out # "duplicate"
                /\ (Finished(i) /\ inv[i].out # "exception") => inv[i].replied)

C22_Witness ==
    \E i \in Inv :
        /\ Finished(i) /\ inv[i].ledger = "raised" /\ inv[i].u \notin dedup
        /\ inv[i].out = "ai_response" /\ inv[i].replied
        /\ handled = 1

\* C24: an invocation whose ledger calls both answered has stored the marker
\* of its update before it does anything else: at every position past the
\* ledger calls (session reads and writes, archive writes, the completion
\* call, the reply) the marker is in the ledger, and no invocation is past the
\* ledger calls without having made them.
PastLedger(i) == inv[i].pc \notin {"idle", "dedup_get", "dedup_put"} /\ inv[i].out # "duplicate"

C24_MarkerFirst ==
    \A i \in Inv :
        /\ PastLedger(i) => inv[i].ledger \in {"marked", "raised"}
        /\ (PastLedger(i) /\ inv[i].ledger = "marked") => inv[i].u \in dedup
        /\ ~PastLedger(i) => (~inv[i].acted /\ ~inv[i].replied /\ inv[i].ai = "none")

C24_Witness ==
    \E i \in Inv :
        /\ inv[i].pc = "ar_put" /\ inv[i].ledger = "marked" /\ inv[i].u \in dedup
        /\ ~inv[i].acted

\* C23: lambda_handler always returns a status record. In webhook mode the
\* record has statusCode 200 whether the update was processed, the body was
\* not JSON or process_telegram_update raised (the last two with "ok" false),
\* and an invocation that has ended returns next. In polling mode the record
\* has statusCode 500 exactly when an update raised, and an exception of
\* process_telegram_update is followed by that return.
C23_AlwaysStatus ==
    /\ [](\A i \in Inv :
            inv[i].status # NoStatus =>
                /\ inv[i].status.statusCode = 200
                /\ inv[i].status.ok <=> inv[i].out \notin {"exception", "invalid_json"})
    /\ [](poll.pc = "done" =>
            /\ poll.status \in {200, 400, 500}
            /\ poll.status = 500 <=> poll.failed # 0)
    /\ [][\A i \in Inv :
            (Finished(i) /\ poll = WebhookSet /\ inv[i].status = NoStatus /\ inv'[i] # inv[i]) =>
                inv'[i].status # NoStatus]_vars
    /\ [][(poll.pc = "wait" /\ Finished(1) /\ inv[1].out = "exception" /\ poll' # poll) =>
            (poll'.pc = "done" /\ poll'.status = 500)]_vars

C23_Witness ==
    \E i \in Inv :
        /\ Finished(i) /\ inv[i].out = "exception" /\ inv[i].u \in dedup
        /\ inv[i].status = [statusCode |-> 200, ok |-> FALSE]

\* C25: an update is dropped as a duplicate only when its reply has gone out:
\* a redelivery of an update whose first invocation wrote the marker and then
\* raised is handled again.
C25_NoUpdateLost ==
    \A i \in Inv : (Finished(i) /\ inv[i].out = "duplicate") => inv[i].u \in sent

\* C26: every write of a session item extends the conversation that item held
\* before the write.
IsPrefix(s, t) == Len(s) <= Len(t) /\ \A k \in 1..Len(s) : s[k] = t[k]

C26_AppendOnly ==
    [][\A s \in DOMAIN table :
          s \in DOMAIN table' => IsPrefix(table[s].conversation, table'[s].conversation)]_vars

\* C27: no two invocations are in the completion call for the same session at
\* the same time.
C27_OneCompletion ==
    \A i, j \in Inv :
        (i # j /\ inv[i].pc = "ollama" /\ inv[j].pc = "ollama") => inv[i].sid # inv[j].sid

\* C28: a chat message that finds a pending_request_ts 55 seconds old or older
\* (left by an invocation that raised before clearing it) is never answered
\* busy, and unless a store call of its own raises it ends as a full turn: the
\* completion was called, the answer was sent and the stored
\* pending_request_ts is 0.
StalePending(i) ==
    inv[i].pending_since # 0 /\ inv[i].tnow - inv[i].pending_since >= GuardWindow

C28_GuardSelfHeals ==
    \A i \in Inv :
        StalePending(i) =>
            /\ inv[i].out # "rate_limited"
            /\ (Finished(i) /\ inv[i].out # "exception") =>
                  /\ inv[i].out = "ai_response" /\ inv[i].ai # "none" /\ inv[i].replied
                  /\ inv[i].sid \in DOMAIN table
                  /\ table[inv[i].sid].pending_request_ts = 0

C28_Witness ==
    \E i \in Inv :
        /\ Finished(i) /\ StalePending(i) /\ inv[i].out = "ai_response"
        /\ table[inv[i].sid].pending_request_ts = 0
        /\ Len(table[inv[i].sid].conversation) = 3

\* C29: when /archive has reported success for a session, the session is not
\* among the session items.
C29_ArchivedStaysGone ==
    \A i \in Inv : (Finished(i) /\ inv[i].out = "archived") => inv[i].sid \notin DOMAIN table

\* C30: when /archive deletes a session item, every message of the
\* conversation the item holds at that moment is in the conversation of the
\* archive object.
InArchive(m, sid) ==
    \E k \in DOMAIN s3[sid].conversation :
        s3[sid].conversation[k] = json_dumps_conversation(<<m>>)[1]

C30_NoMessageLost ==
    [][\A i \in Inv :
          (inv[i].pc = "ar_delete" /\ inv[i].sid \in DOMAIN table /\ inv[i].sid \notin DOMAIN table') =>
              \A k \in DOMAIN table[inv[i].sid].conversation :
                  InArchive(table[inv[i].sid].conversation[k], inv[i].sid)]_vars

\* C31: a session query that fails is not taken for "no sessions": whenever
\* create_session stores its new session, that session is the only active one
\* of the user (every session that was active has been deactivated).
C31_QueryFailureSurfaced ==
    [][\A i \in Inv :
          (inv[i].pc = "cs_put" /\ DOMAIN table' # DOMAIN table) =>
              ActiveIds(table') = DOMAIN table' \ DOMAIN table]_vars

\* C32: an accepted chat turn, run without overlap, goes through its steps in
\* order, each store write succeeding: the user message is appended to the
\* stored conversation, then pending_request_ts is set to the turn's time,
\* then the completion is called (nothing stored), then the assistant message
\* is appended together with pending_request_ts = 0, then the reply is sent
\* (nothing stored). After the turn the conversation ends with the user
\* message followed by the assistant message.
Stored(i) == table[inv[i].sid]

C32_TurnOrder ==
    /\ [][\A i \in Inv :
            (inv[i].pc = "append_user" /\ inv'[i].pc # "done") =>
                /\ inv'[i].pc = "mark_pending"
                /\ table'[inv[i].sid].conversation =
                      Append(Stored(i).conversation, UserMsg(inv[i].u, inv[i].tnow))
                /\ table'[inv[i].sid].pending_request_ts = Stored(i).pending_request_ts]_vars
    /\ [][\A i \in Inv :
            (inv[i].pc = "mark_pending" /\ inv'[i].pc # "done") =>
                /\ inv'[i].pc = "ollama"
                /\ table'[inv[i].sid].conversation = Stored(i).conversation
                /\ table'[inv[i].sid].pending_request_ts = inv[i].tnow]_vars
    /\ [][\A i \in Inv :
            inv[i].pc = "ollama" =>
                (inv'[i].pc = "append_assistant" /\ inv'[i].ai # "none" /\ table' = table)]_vars
    /\ [][\A i \in Inv :
            (inv[i].pc = "append_assistant" /\ inv'[i].pc # "done") =>
                /\ inv'[i].pc = "reply" /\ inv'[i].out = "ai_response"
                /\ table'[inv[i].sid].conversation =
                      Append(Stored(i).conversation, AssistantMsg(inv[i].u, inv[i].ai, now))
                /\ table'[inv[i].sid].pending_request_ts = 0]_vars
    /\ [][\A i \in Inv :
            (inv[i].pc = "reply" /\ inv[i].out = "ai_response") =>
                (inv'[i].replied /\ table' = table)]_vars
    /\ [](\A i \in Inv :
            (Finished(i) /\ inv[i].out = "ai_response") =>
                LET conv == Stored(i).conversation
                    n == Len(conv)
                IN /\ n >= 2
                   /\ conv[n - 1] = UserMsg(inv[i].u, inv[i].tnow)
                   /\ conv[n].role = "assistant" /\ conv[n].content = <<inv[i].ai, inv[i].u>>)

C32_Witness ==
    \E i \in Inv :
        /\ Finished(i) /\ inv[i].out = "ai_response" /\ inv[i].replied
        /\ Len(Stored(i).conversation) = 4
        /\ Stored(i).conversation[2].role = "assistant"

\* C35: no write of a chat turn changes the stored is_active of a session.
C35_TurnKeepsActivation ==
    [][\A i \in Inv :
          (inv[i].pc \in {"append_user", "mark_pending", "append_assistant"} /\ inv'[i] # inv[i]) =>
              \A s \in DOMAIN table \cap DOMAIN table' :
                  table'[s].is_active = table[s].is_active]_vars

\* C33: a message without a document whose text is empty, whitespace only or
\* longer than 4000 characters once stripped is answered "no_text" or
\* "message_too_long": its invocation never reads or creates a session, calls
\* no completion and changes neither store. A text of exactly 4000
\* characters once stripped is answered neither way.
Invoked(i) == inv[i].pc # "idle" /\ inv[i].out # "duplicate"

BadText(i) ==
    /\ Invoked(i) /\ inv[i].c.doc = NoDoc
    /\ inv[i].c.text.body = 0 \/ inv[i].c.text.body > 4000

C33_BadTextRejected ==
    /\ [](\A i \in Inv :
            BadText(i) =>
                /\ inv[i].pc \in {"dedup_get", "dedup_put", "handle", "reply", "done"}
                /\ inv[i].sid = 0 /\ inv[i].ai = "none" /\ inv[i].items = EmptyItems
                /\ Finished(i) =>
                      /\ inv[i].replied
                      /\ inv[i].out = IF inv[i].c.text.body = 0 THEN "no_text"
                                      ELSE "message_too_long")
    /\ [][\A i \in Inv :
            (BadText(i) /\ inv'[i] # inv[i]) =>
                (table' = table /\ s3' = s3 /\ used' = used)]_vars
    /\ [](\A i \in Inv :
            (Invoked(i) /\ inv[i].c.text.body = 4000) =>
                inv[i].out \notin {"no_text", "message_too_long"})

C33_Witness ==
    \E i \in Inv :
        /\ Finished(i) /\ inv[i].out = "message_too_long" /\ inv[i].replied
        /\ inv[i].c.text = [lead |-> 1, body |-> 4001]
        /\ DOMAIN table # {}

\* C34 as stated: every update goes down one of three paths: with a document
\* to handle_document, otherwise with a text that names a command to that
\* command (one that does not exist: the "unknown" reply), otherwise to the
\* chat pipeline (which is where a text may be rejected).
C34_AsStated ==
    [][\A i \in Inv :
          (inv[i].pc = "handle" /\ inv'[i] # inv[i]) =>
              /\ inv[i].c.doc # NoDoc => inv'[i].pc = "doc"
              /\ (inv[i].c.doc = NoDoc /\ inv[i].c.kind = "chat") =>
                    \/ inv'[i].pc = "gcs_query"
                    \/ inv'[i].out \in {"no_text", "message_too_long"}
              /\ (inv[i].c.doc = NoDoc /\ inv[i].c.kind = "newsession") =>
                    inv'[i].pc = "cs_query"
              /\ (inv[i].c.doc = NoDoc /\ inv[i].c.kind = "unknown") =>
                    inv'[i].out = "unknown"]_vars

\* C34: handle_message sends every update down exactly one path: with a
\* document to handle_document, whatever the text says; otherwise a text that
\* is accepted goes to its command when it names one, to the "unknown" reply
\* (nothing stored, nothing read) when it names a command that does not exist,
\* and to the chat pipeline when it is no command.
GoodText(i) ==
    /\ Invoked(i) /\ inv[i].c.doc = NoDoc
    /\ 0 < inv[i].c.text.body /\ inv[i].c.text.body <= 4000

C34_DispatchPaths ==
    /\ [][\A i \in Inv :
            (inv[i].pc = "handle" /\ inv'[i] # inv[i]) =>
                /\ inv[i].c.doc # NoDoc => inv'[i].pc = "doc"
                /\ (GoodText(i) /\ inv[i].c.kind = "chat") => inv'[i].pc = "gcs_query"
                /\ (GoodText(i) /\ inv[i].c.kind = "newsession") => inv'[i].pc = "cs_query"
                /\ (GoodText(i) /\ inv[i].c.kind = "unknown") =>
                      (inv'[i].pc = "reply" /\ inv'[i].out = "unknown")]_vars
    /\ [](\A i \in Inv :
            (Invoked(i) /\ inv[i].c.doc # NoDoc) =>
                /\ inv[i].pc \in {"dedup_get", "dedup_put", "handle", "doc", "import_put",
                                   "reply", "done"}
                /\ inv[i].ai = "none" /\ inv[i].out \notin {"unknown", "newsession"})
    /\ [](\A i \in Inv :
            (GoodText(i) /\ inv[i].c.kind = "unknown") =>
                /\ inv[i].pc \in {"dedup_get", "dedup_put", "handle", "reply", "done"}
                /\ inv[i].sid = 0 /\ inv[i].items = EmptyItems)
    /\ [][\A i \in Inv :
            (GoodText(i) /\ inv[i].c.kind = "unknown" /\ inv'[i] # inv[i]) =>
                (table' = table /\ s3' = s3)]_vars

C34_Witness ==
    \E i \in Inv :
        /\ Finished(i) /\ inv[i].c.kind = "newsession" /\ inv[i].c.doc # NoDoc
        /\ inv[i].out = "imported" /\ table = EmptyItems

\* C36: the delete of /archive removes the one item and changes no other, so
\* after the active session is archived the user has no active session; none
\* appears until a get_current_session finds none and calls create_session,
\* which adds one new session, active and with an empty conversation, and
\* leaves the remaining sessions as they are.
C36_ArchiveActivatesNone ==
    /\ [][\A i \in Inv :
            (inv[i].pc = "ar_delete" /\ inv'[i] # inv[i]) =>
                /\ DOMAIN table' = DOMAIN table \ {inv[i].sid}
                /\ \A s \in DOMAIN table' : table'[s] = table[s]
                /\ table[inv[i].sid].is_active = 1 => ActiveIds(table') = {}]_vars
    /\ [][(ActiveIds(table) = {} /\ ActiveIds(table') # {}) =>
            \E i \in Inv :
                /\ inv[i].pc = "cs_put" /\ inv[i].ret = "chat"
                /\ inv[i].sid \notin DOMAIN table
                /\ DOMAIN table' = DOMAIN table \cup {inv[i].sid}
                /\ table'[inv[i].sid].is_active = 1
                /\ table'[inv[i].sid].conversation = <<>>
                /\ \A s \in DOMAIN table : table'[s] = table[s]]_vars
    /\ [][\A i \in Inv :
            (inv[i].pc = "gcs_query" /\ ActiveIds(table) = {} /\ inv'[i] # inv[i]) =>
                inv'[i].pc = "cs_query"]_vars

C36_Witness ==
    \E i \in Inv :
        /\ inv[i].pc = "guard" /\ inv[i].ret = "chat"
        /\ DOMAIN s3 # {}
        /\ ActiveIds(table) = {inv[i].sid}
        /\ \E s \in DOMAIN table : s # inv[i].sid /\ table[s].is_active = 0
====
